---- MODULE Spec2Model ----
(***************************************************************************)
(* Chunk addressing of python-database-link: formatConversion              *)
(* (src/src/main/functions/format_conversion.py).                          *)
(*                                                                         *)
(* A sequence is split into fixed-size, individually compressed chunks,    *)
(* chunks read back from a store are merged, and a range request is        *)
(* resolved to the chunk ids to fetch plus offsets into the merged text.   *)
(* The chunk size is the class attribute n_size, written by set().         *)
(***************************************************************************)
EXTENDS Integers, Sequences, FiniteSets, TLC

(***************************************************************************)
(* Bounds of the explored inputs.                                          *)
(***************************************************************************)
MaxLen == 4
MaxSize == 3
MaxFetch == 3
SessionMaxLen == 2

(***************************************************************************)
(* Program constants: int(3*10e4) and int(6*10e3), line 25.                *)
(***************************************************************************)
MongoSize == 300000
OtherSize == 60000

Min(a, b) == IF a < b THEN a ELSE b
Max(a, b) == IF a > b THEN a ELSE b

(***************************************************************************)
(* Outcome of a call: a returned value or a raised exception.              *)
(***************************************************************************)
Return(v) == [ok |-> TRUE, value |-> v]
Raise(kind) == [ok |-> FALSE, error |-> kind]

(***************************************************************************)
(* Python str/list slicing s[a:b]; indices are clamped, negative indices   *)
(* count from the end.  Positions are 0-based as in the source.            *)
(***************************************************************************)
SliceIndex(i, n) == IF i < 0 THEN Max(i + n, 0) ELSE Min(i, n)
Slice(s, a, b) == SubSeq(s, SliceIndex(a, Len(s)) + 1, SliceIndex(b, Len(s)))

(***************************************************************************)
(* range(start, stop, step) for step > 0, as the list of its values.       *)
(***************************************************************************)
RECURSIVE Range(_, _, _)
Range(start, stop, step) ==
    IF start >= stop THEN <<>>
    ELSE <<start>> \o Range(start + step, stop, step)

(***************************************************************************)
(* str.encode() / bytes.decode() on the nucleotide alphabet (UTF-8).       *)
(***************************************************************************)
Bases == {"A", "C", "G", "T"}
CodePoint == [c \in Bases |-> CASE c = "A" -> 65 [] c = "C" -> 67
                                [] c = "G" -> 71 [] c = "T" -> 84]
encode(text) == [i \in 1..Len(text) |-> CodePoint[text[i]]]
decode(bytes) ==
    [i \in 1..Len(bytes) |-> CHOOSE c \in Bases : CodePoint[c] = bytes[i]]

(***************************************************************************)
(* zstandard.compress / zstandard.decompress: a frame made of the magic    *)
(* number 0xFD2FB528 (little endian), the content size and the block.      *)
(* decompress rejects anything that is not such a frame.                   *)
(***************************************************************************)
ZstdMagic == <<40, 181, 47, 253>>
compress(bytes) == ZstdMagic \o <<Len(bytes)>> \o bytes
IsFrame(payload) ==
    /\ Len(payload) >= 5
    /\ SubSeq(payload, 1, 4) = ZstdMagic
    /\ payload[5] = Len(payload) - 5
decompress(payload) ==
    IF IsFrame(payload) THEN Return(SubSeq(payload, 6, Len(payload)))
    ELSE Raise("ZstdError")

(***************************************************************************)
(* f"{identifier}_{idx}", lines 56 and 144.                                *)
(***************************************************************************)
FormatId(identifier, idx) == identifier \o "_" \o ToString(idx)

(***************************************************************************)
(* _split_, lines 30-63.  enumerate(range(0, len(sequence), size)) yields  *)
(* (idx, pos) pairs; range() raises on step 0 and is empty on step < 0.    *)
(***************************************************************************)
SplitChunk_short(identifier, sequence, size, idx, pos) ==
    [_id |-> FormatId(identifier, idx),
     accession_version |-> identifier,
     sequence |-> compress(encode(Slice(sequence, pos, pos + size - 1))),
     chunk_number |-> idx]

SplitChunk(identifier, sequence, size, idx, pos) ==
    [_id |-> FormatId(identifier, idx),
     accession_version |-> identifier,
     sequence |-> compress(encode(Slice(sequence, pos, pos + size))),
     chunk_number |-> idx]

_split_from_one(identifier, sequence, size) ==
    IF size = 0 THEN Raise("ValueError")
    ELSE IF size < 0 THEN Return(<<>>)
    ELSE LET positions == Range(0, Len(sequence), size)
         IN Return([k \in 1..Len(positions) |->
                      SplitChunk(identifier, sequence, size, k, positions[k])])

_split_(identifier, sequence, size) ==
    IF size = 0 THEN Raise("ValueError")
    ELSE IF size < 0 THEN Return(<<>>)
    ELSE LET positions == Range(0, Len(sequence), size)
         IN Return([k \in 1..Len(positions) |->
                      SplitChunk(identifier, sequence, size, k - 1, positions[k])])

(***************************************************************************)
(* sorted(sequences, key=chunk_number): stable insertion into a sorted     *)
(* list, an element going after the elements with an equal key.            *)
(***************************************************************************)
RECURSIVE InsertByChunkNumber(_, _)
InsertByChunkNumber(x, sorted) ==
    IF sorted = <<>> THEN <<x>>
    ELSE IF x.chunk_number < Head(sorted).chunk_number THEN <<x>> \o sorted
    ELSE <<Head(sorted)>> \o InsertByChunkNumber(x, Tail(sorted))

SortedByChunkNumber_unsorted(sequences) == sequences

RECURSIVE SortedByChunkNumber(_)
SortedByChunkNumber(sequences) ==
    IF sequences = <<>> THEN <<>>
    ELSE InsertByChunkNumber(sequences[Len(sequences)],
                             SortedByChunkNumber(SubSeq(sequences, 1, Len(sequences) - 1)))

(***************************************************************************)
(* "".join(...) over the decompressed, decoded payloads, line 78.          *)
(***************************************************************************)
RECURSIVE JoinDecompressed(_)
JoinDecompressed(sequences) ==
    IF sequences = <<>> THEN <<>>
    ELSE decode(decompress(Head(sequences).sequence).value)
           \o JoinDecompressed(Tail(sequences))

(***************************************************************************)
(* _merge_, lines 66-86.  The identifier is taken from the first chunk of  *)
(* the sorted list; any exception becomes ValueError.                      *)
(***************************************************************************)
_merge_(sequences) ==
    LET sorted == SortedByChunkNumber(sequences)
    IN IF \E i \in 1..Len(sorted) : ~decompress(sorted[i].sequence).ok
         THEN Raise("ValueError")
       ELSE IF sorted = <<>> THEN Raise("ValueError")
       ELSE Return([accession_version |-> sorted[1].accession_version,
                    sequence |-> JoinDecompressed(sorted)])

(***************************************************************************)
(* formatConversion.set, lines 16-27: the class attributes after the call. *)
(***************************************************************************)
set(target) ==
    [target |-> target,
     n_size |-> IF target = "mongodb" THEN MongoSize ELSE OtherSize]

(***************************************************************************)
(* modification, lines 89-128.  cls is the record of the class attributes  *)
(* that exist; reading a missing n_size raises AttributeError, which the   *)
(* handler turns into ValueError like every other exception.  input is     *)
(* tagged with its Python type; a sequence of None is the empty tuple, the *)
(* only test applied to it being its truth value (line 123).               *)
(***************************************************************************)
None == <<>>
Str(value) == [type |-> "str", value |-> value]
List(value) == [type |-> "list", value |-> value]

modification_unchecked(cls, input, sequence, mode) ==
    IF mode = "merge"
      THEN IF input.type # "list" THEN Raise("ValueError")
           ELSE _merge_(input.value)
    ELSE IF mode = "split"
      THEN IF input.type # "str" THEN Raise("ValueError")
           ELSE IF sequence = <<>> THEN Raise("ValueError")
           ELSE IF "n_size" \notin DOMAIN cls THEN Raise("ValueError")
           ELSE _split_(input.value, sequence, cls.n_size)
    ELSE Raise("ValueError")

modification(cls, input, sequence, mode) ==
    IF "n_size" \notin DOMAIN cls THEN Raise("ValueError")
    ELSE IF cls.n_size = 0 THEN Raise("ValueError")
    ELSE IF mode = "merge"
      THEN IF input.type # "list" THEN Raise("ValueError")
           ELSE _merge_(input.value)
    ELSE IF mode = "split"
      THEN IF input.type # "str" THEN Raise("ValueError")
           ELSE IF sequence = <<>> THEN Raise("ValueError")
           ELSE _split_(input.value, sequence, cls.n_size)
    ELSE Raise("ValueError")

(***************************************************************************)
(* process_request, lines 131-152.  Nothing is caught here: a missing      *)
(* n_size surfaces as AttributeError.  // and % are floor division and     *)
(* modulo with the sign of the (positive) divisor, as \div and % are.      *)
(***************************************************************************)
PartitionList(accession_version, idx_start, idx_end) ==
    [k \in 1..Max(idx_end + 1 - idx_start, 0) |->
        FormatId(accession_version, idx_start + k - 1)]

process_request_own_chunk(cls, request_form) ==
    IF "n_size" \notin DOMAIN cls THEN Raise("AttributeError")
    ELSE IF cls.n_size = 0 THEN Raise("ZeroDivisionError")
    ELSE
      LET idx_start == request_form.start \div cls.n_size
          idx_end == request_form.end \div cls.n_size
          partition_list ==
              PartitionList(request_form.accession_version, idx_start, idx_end)
          adj_pos_start == request_form.start % cls.n_size
          adj_pos_end == request_form.end % cls.n_size
          adj_position ==
              (request_form.accession_version :>
                  <<adj_pos_start, adj_pos_end, request_form.strand>>)
      IN Return([partition_list |-> partition_list,
                 adj_position |-> adj_position])

process_request(cls, request_form) ==
    IF "n_size" \notin DOMAIN cls THEN Raise("AttributeError")
    ELSE IF cls.n_size = 0 THEN Raise("ZeroDivisionError")
    ELSE
      LET idx_start == request_form.start \div cls.n_size
          idx_end == request_form.end \div cls.n_size
          partition_list ==
              PartitionList(request_form.accession_version, idx_start, idx_end)
          adj_pos_start == request_form.start % cls.n_size
          adj_pos_end == (request_form.end % cls.n_size)
                           + (cls.n_size * (Len(partition_list) - 1))
          adj_position ==
              (request_form.accession_version :>
                  <<adj_pos_start, adj_pos_end, request_form.strand>>)
      IN Return([partition_list |-> partition_list,
                 adj_position |-> adj_position])

(***************************************************************************)
(* State.                                                                  *)
(*   cls        class attributes of formatConversion that exist            *)
(*   sequence   the sequence held for each accession version               *)
(*   written    outcome of the split call of each ingested accession       *)
(*   store      chunk records persisted by the storage writer              *)
(*   request    last request form handed to process_request               *)
(*   resolved   outcome of that call                                       *)
(*   fetched    chunk records the storage reader returned, in its order    *)
(*   via        how they were selected: "partitions" or "reader"           *)
(*   merged     outcome of the merge call on fetched                       *)
(*   phase      position in the ingest / read pipeline                     *)
(*   set_called whether set() has been called so far                       *)
(*   last       the last modification / process_request call of a session  *)
(*   job        per caller: the target it configures and its request form  *)
(*   pc         per caller: the source line it executes next               *)
(*   local      per caller: the local variables of process_request         *)
(*   result     per caller: what its process_request call returned         *)
(***************************************************************************)
VARIABLES cls, sequence, written, store, request, resolved, fetched, via,
          merged, phase, set_called, last, job, pc, local, result

coreVars == <<sequence, written, store, request, resolved, fetched, via,
              merged, phase>>
sessionVars == <<set_called, last>>
callerVars == <<job, pc, local, result>>
vars == <<cls, coreVars, sessionVars, callerVars>>

IdA == "NC_1.1"
IdB == "NM_2.1"
Ids == {IdA, IdB}

InputBases == {"A", "C"}
Sequences == UNION {[1..n -> InputBases] : n \in 0..MaxLen}
OtherSequence == <<"G", "T", "G">>
Positions == 0..(MaxLen + 1)
Strand == "+"

RequestForms ==
    {[accession_version |-> id, start |-> a, end |-> b, strand |-> Strand] :
        id \in Ids, a \in Positions, b \in Positions}

NotCalled == Raise("not called")
NoRequest == [accession_version |-> "", start |-> 0, end |-> 0, strand |-> ""]
NoAttributes == [a \in {} |-> 0]
NoCall == [op |-> "none", mode |-> "", input |-> Str(""), sequence |-> None,
           form |-> NoRequest, configured |-> FALSE, outcome |-> NotCalled]
Callers == {1, 2}

CoreIdle ==
    /\ sequence = NoAttributes
    /\ written = NoAttributes
    /\ store = {}
    /\ request = NoRequest
    /\ resolved = NotCalled
    /\ fetched = <<>>
    /\ via = "none"
    /\ merged = NotCalled
    /\ phase = "none"

SessionIdle ==
    /\ set_called = TRUE
    /\ last = NoCall

CallerIdle ==
    /\ job = NoAttributes
    /\ pc = NoAttributes
    /\ local = NoAttributes
    /\ result = NoAttributes

SeqToSet(s) == {s[i] : i \in 1..Len(s)}
(***************************************************************************)
(* The lists of at most n distinct elements of S, in every order.          *)
(***************************************************************************)
RECURSIVE Orderings(_, _)
Orderings(S, n) ==
    IF n = 0 \/ S = {} THEN {<<>>}
    ELSE {<<>>} \cup UNION {{<<x>> \o rest : rest \in Orderings(S \ {x}, n - 1)} : x \in S}

(***************************************************************************)
(* Ingest / read pipeline with the chunk size held in cls.n_size.  The     *)
(* sizes set() assigns (300000, 60000) put multi-chunk sequences out of    *)
(* reach of enumeration, so Core starts from a class whose n_size is any   *)
(* of 1..MaxSize: _split_ takes the size as an argument and                *)
(* process_request is arithmetic in cls.n_size.                            *)
(***************************************************************************)
CoreInit ==
    /\ cls \in {[target |-> "mongodb", n_size |-> k] : k \in 1..MaxSize}
    /\ sequence \in {(IdA :> s) @@ (IdB :> OtherSequence) : s \in Sequences}
    /\ written = NoAttributes
    /\ store = {}
    /\ request = NoRequest
    /\ resolved = NotCalled
    /\ fetched = <<>>
    /\ via = "none"
    /\ merged = NotCalled
    /\ phase = "ingest"
    /\ SessionIdle
    /\ CallerIdle

(***************************************************************************)
(* The pipeline reads once every accession has been split and every        *)
(* returned chunk persisted.                                               *)
(***************************************************************************)
AllStored(w, st) ==
    /\ DOMAIN w = Ids
    /\ \A id \in Ids : w[id].ok => SeqToSet(w[id].value) \subseteq st

(***************************************************************************)
(* Ingestion: modification(id, sequence, mode="split").                    *)
(***************************************************************************)
Ingest(id) ==
    /\ phase = "ingest"
    /\ id \notin DOMAIN written
    /\ written' = (id :> modification(cls, Str(id), sequence[id], "split")) @@ written
    /\ phase' = IF AllStored(written', store) THEN "read" ELSE "ingest"
    /\ UNCHANGED <<cls, sequence, store, request, resolved, fetched, via, merged,
                   sessionVars, callerVars>>

(***************************************************************************)
(* Storage writer: persists the chunks a split returned, keyed by _id.     *)
(***************************************************************************)
Persist(id) ==
    /\ phase = "ingest"
    /\ id \in DOMAIN written
    /\ written[id].ok
    /\ ~(SeqToSet(written[id].value) \subseteq store)
    /\ store' = store \cup SeqToSet(written[id].value)
    /\ phase' = IF AllStored(written, store') THEN "read" ELSE "ingest"
    /\ UNCHANGED <<cls, sequence, written, request, resolved, fetched, via, merged,
                   sessionVars, callerVars>>

(***************************************************************************)
(* Range resolution: process_request(request_form).                        *)
(***************************************************************************)
Resolve ==
    /\ phase = "read"
    /\ \E form \in RequestForms :
          /\ request' = form
          /\ resolved' = process_request(cls, form)
    /\ phase' = "resolved"
    /\ UNCHANGED <<cls, sequence, written, store, fetched, via, merged,
                   sessionVars, callerVars>>

(***************************************************************************)
(* Storage reader, given the partition list: the stored records with these *)
(* ids, in any order; ids without a record are left out.                   *)
(***************************************************************************)
FetchPartitions ==
    /\ phase = "resolved"
    /\ resolved.ok
    /\ LET found == {c \in store : c._id \in SeqToSet(resolved.value.partition_list)}
       IN \E rows \in Orderings(found, Cardinality(found)) :
             /\ Len(rows) = Cardinality(found)
             /\ fetched' = rows
    /\ via' = "partitions"
    /\ phase' = "fetched"
    /\ UNCHANGED <<cls, sequence, written, store, request, resolved, merged,
                   sessionVars, callerVars>>

(***************************************************************************)
(* Storage reader, any query: up to MaxFetch stored records in any order.  *)
(***************************************************************************)
FetchAny ==
    /\ phase = "read"
    /\ \E rows \in Orderings(store, MaxFetch) : fetched' = rows
    /\ via' = "reader"
    /\ phase' = "fetched"
    /\ UNCHANGED <<cls, sequence, written, store, request, resolved, merged,
                   sessionVars, callerVars>>

(***************************************************************************)
(* Merge: modification(fetched, mode="merge").                             *)
(***************************************************************************)
Merge ==
    /\ phase = "fetched"
    /\ merged' = modification(cls, List(fetched), None, "merge")
    /\ phase' = "merged"
    /\ UNCHANGED <<cls, sequence, written, store, request, resolved, fetched, via,
                   sessionVars, callerVars>>

CoreNext ==
    \/ \E id \in Ids : Ingest(id)
    \/ \E id \in Ids : Persist(id)
    \/ Resolve
    \/ FetchPartitions
    \/ FetchAny
    \/ Merge

Core == CoreInit /\ [][CoreNext]_vars

(***************************************************************************)
(* A session of calls on the class as the program starts it: no class      *)
(* attribute exists until set() is called.                                 *)
(***************************************************************************)
SessionPositions ==
    {0, 1, OtherSize - 1, OtherSize, OtherSize + 1, MongoSize, MongoSize + 1}
SessionForms ==
    {[accession_version |-> IdA, start |-> a, end |-> b, strand |-> Strand] :
        a \in SessionPositions, b \in SessionPositions}
SessionSequences == UNION {[1..n -> InputBases] : n \in 0..SessionMaxLen}
SessionLists ==
    {<<>>} \cup {_split_(id, s, k).value : id \in Ids, s \in SessionSequences, k \in 1..MaxSize}
Targets == {"mongodb", "azure"}
Modes == {"split", "merge", "drop"}

SessionInit ==
    /\ cls = NoAttributes
    /\ set_called = FALSE
    /\ last = NoCall
    /\ CoreIdle
    /\ CallerIdle

Set(target) ==
    /\ cls' = set(target)
    /\ set_called' = TRUE
    /\ UNCHANGED <<last, coreVars, callerVars>>

CallModification(input, seq, mode) ==
    /\ last' = [op |-> "modification", mode |-> mode, input |-> input,
                sequence |-> seq, form |-> NoRequest, configured |-> set_called,
                outcome |-> modification(cls, input, seq, mode)]
    /\ UNCHANGED <<cls, set_called, coreVars, callerVars>>

CallProcessRequest(form) ==
    /\ last' = [op |-> "process_request", mode |-> "", input |-> Str(""),
                sequence |-> None, form |-> form, configured |-> set_called,
                outcome |-> process_request(cls, form)]
    /\ UNCHANGED <<cls, set_called, coreVars, callerVars>>

SessionNext ==
    \/ \E target \in Targets : Set(target)
    \/ \E id \in Ids, seq \in SessionSequences, mode \in Modes :
          CallModification(Str(id), seq, mode)
    \/ \E rows \in SessionLists, mode \in Modes :
          CallModification(List(rows), None, mode)
    \/ \E form \in SessionForms : CallProcessRequest(form)

Session == SessionInit /\ [][SessionNext]_vars

(***************************************************************************)
(* Two callers sharing the class, interleaved line by line.  Each calls    *)
(* set(target) (lines 24, 25) and then process_request(form) (lines 141,   *)
(* 142, 144, 147, 148, 150-152); every read of cls.n_size sees the         *)
(* attribute as it is when the line runs.                                  *)
(***************************************************************************)
CallerForms(id) ==
    {[accession_version |-> id, start |-> a, end |-> b, strand |-> Strand] :
        a \in {0, OtherSize}, b \in {OtherSize + 1, MongoSize, MongoSize + 1}}
NoLocals == [idx_start |-> 0, idx_end |-> 0, partition_list |-> <<>>,
             adj_pos_start |-> 0, adj_pos_end |-> 0]

CallersInit ==
    /\ cls = NoAttributes
    /\ job \in {(1 :> [target |-> "mongodb", form |-> f1])
                  @@ (2 :> [target |-> "azure", form |-> f2]) :
                f1 \in CallerForms(IdA), f2 \in CallerForms(IdB)}
    /\ pc = [c \in Callers |-> "line24"]
    /\ local = [c \in Callers |-> NoLocals]
    /\ result = [c \in Callers |-> NotCalled]
    /\ CoreIdle
    /\ SessionIdle

Line24(c) ==
    /\ pc[c] = "line24"
    /\ cls' = ("target" :> job[c].target) @@ cls
    /\ pc' = [pc EXCEPT ![c] = "line25"]
    /\ UNCHANGED <<job, local, result, coreVars, sessionVars>>

Line25(c) ==
    /\ pc[c] = "line25"
    /\ cls' = ("n_size" :> (IF job[c].target = "mongodb" THEN MongoSize ELSE OtherSize))
                @@ cls
    /\ pc' = [pc EXCEPT ![c] = "line141"]
    /\ UNCHANGED <<job, local, result, coreVars, sessionVars>>

Line141(c) ==
    /\ pc[c] = "line141"
    /\ local' = [local EXCEPT ![c].idx_start = job[c].form.start \div cls.n_size]
    /\ pc' = [pc EXCEPT ![c] = "line142"]
    /\ UNCHANGED <<cls, job, result, coreVars, sessionVars>>

Line142(c) ==
    /\ pc[c] = "line142"
    /\ local' = [local EXCEPT ![c].idx_end = job[c].form.end \div cls.n_size]
    /\ pc' = [pc EXCEPT ![c] = "line144"]
    /\ UNCHANGED <<cls, job, result, coreVars, sessionVars>>

Line144(c) ==
    /\ pc[c] = "line144"
    /\ local' = [local EXCEPT ![c].partition_list =
                    PartitionList(job[c].form.accession_version,
                                  local[c].idx_start, local[c].idx_end)]
    /\ pc' = [pc EXCEPT ![c] = "line147"]
    /\ UNCHANGED <<cls, job, result, coreVars, sessionVars>>

Line147(c) ==
    /\ pc[c] = "line147"
    /\ local' = [local EXCEPT ![c].adj_pos_start = job[c].form.start % cls.n_size]
    /\ pc' = [pc EXCEPT ![c] = "line148"]
    /\ UNCHANGED <<cls, job, result, coreVars, sessionVars>>

Line148(c) ==
    /\ pc[c] = "line148"
    /\ local' = [local EXCEPT ![c].adj_pos_end =
                    (job[c].form.end % cls.n_size)
                      + (cls.n_size * (Len(local[c].partition_list) - 1))]
    /\ pc' = [pc EXCEPT ![c] = "line150"]
    /\ UNCHANGED <<cls, job, result, coreVars, sessionVars>>

Line150(c) ==
    /\ pc[c] = "line150"
    /\ result' = [result EXCEPT ![c] =
                    Return([partition_list |-> local[c].partition_list,
                            adj_position |->
                               (job[c].form.accession_version :>
                                  <<local[c].adj_pos_start, local[c].adj_pos_end,
                                    job[c].form.strand>>)])]
    /\ pc' = [pc EXCEPT ![c] = "done"]
    /\ UNCHANGED <<cls, job, local, coreVars, sessionVars>>

CallersNext ==
    \E c \in Callers :
        \/ Line24(c)
        \/ Line25(c)
        \/ Line141(c)
        \/ Line142(c)
        \/ Line144(c)
        \/ Line147(c)
        \/ Line148(c)
        \/ Line150(c)

ConcurrentCallers == CallersInit /\ [][CallersNext]_vars

(***************************************************************************)
(* Properties of the ingest / read pipeline (specification Core).          *)
(***************************************************************************)
Size == cls.n_size
Original(id) == sequence[id]
InRange(form) ==
    /\ form.accession_version \in Ids
    /\ 0 <= form.start
    /\ form.start < form.end
    /\ form.end <= Len(Original(form.accession_version))
Offsets == resolved.value.adj_position[request.accession_version]
ChunkNumbers(rows) == {rows[i].chunk_number : i \in 1..Len(rows)}
Owners(rows) == {rows[i].accession_version : i \in 1..Len(rows)}
IsContiguousRun(rows, id) ==
    /\ rows # <<>>
    /\ Owners(rows) = {id}
    /\ \A n \in ChunkNumbers(rows) :
          n - 1 \in ChunkNumbers(rows) \/ \A m \in ChunkNumbers(rows) : n <= m
Lowest(rows) == CHOOSE n \in ChunkNumbers(rows) : \A m \in ChunkNumbers(rows) : n <= m
Highest(rows) == CHOOSE n \in ChunkNumbers(rows) : \A m \in ChunkNumbers(rows) : n >= m
Ascending(rows) ==
    \A i \in 1..(Len(rows) - 1) : rows[i].chunk_number < rows[i + 1].chunk_number

(***************************************************************************)
(* C1  Resolver consistency: for an in-range request, the stored chunks    *)
(* named by the partition list, merged and sliced at the two returned      *)
(* offsets, give exactly sequence[start:end].                              *)
(***************************************************************************)
C1_ResolverConsistency ==
    (phase = "merged" /\ via = "partitions" /\ InRange(request)) =>
        /\ merged.ok
        /\ Slice(merged.value.sequence, Offsets[1], Offsets[2])
             = Slice(Original(request.accession_version), request.start, request.end)

C1_Witness ==
    /\ phase = "merged"
    /\ via = "partitions"
    /\ InRange(request)
    /\ request.start \div Size > 0
    /\ request.end % Size = 0
    /\ Len(fetched) >= 2
    /\ ~Ascending(fetched)
    /\ merged.ok

(***************************************************************************)
(* C2  Round trip: merging the complete output of the split of a non-empty *)
(* sequence returns its identifier and the sequence unchanged.             *)
(***************************************************************************)
IsCompleteOutput(rows, id) ==
    /\ id \in DOMAIN written
    /\ written[id].ok
    /\ SeqToSet(rows) = SeqToSet(written[id].value)

C2_RoundTrip ==
    \A id \in Ids :
        (phase = "merged" /\ Original(id) # <<>> /\ IsCompleteOutput(fetched, id)) =>
            merged = Return([accession_version |-> id, sequence |-> Original(id)])

C2_Witness ==
    /\ phase = "merged"
    /\ Original(IdA) # <<>>
    /\ fetched = written[IdA].value
    /\ Len(fetched) >= 2
    /\ Len(Original(IdA)) % Size # 0
    /\ merged.ok

(***************************************************************************)
(* C3  Merge restores order on partial input: given the chunks numbered    *)
(* i..j of one sequence in any order, merge returns                        *)
(* s[i*size : min((j+1)*size, len(s))].                                    *)
(***************************************************************************)
C3_MergeRestoresOrder ==
    \A id \in Ids :
        (phase = "merged" /\ IsContiguousRun(fetched, id)) =>
            merged = Return([accession_version |-> id,
                             sequence |-> Slice(Original(id),
                                                Lowest(fetched) * Size,
                                                Min((Highest(fetched) + 1) * Size,
                                                    Len(Original(id))))])

C3_Witness ==
    /\ phase = "merged"
    /\ IsContiguousRun(fetched, IdA)
    /\ ~IsCompleteOutput(fetched, IdA)
    /\ Lowest(fetched) > 0
    /\ Len(fetched) >= 2
    /\ ~Ascending(fetched)
    /\ merged.ok

(***************************************************************************)
(* C4  Chunk numbering: the split of a non-empty sequence returns          *)
(* ceil(len/size) chunks numbered 0..k-1 in output order, chunk i having   *)
(* id "{id}_{i}" and holding s[i*size : i*size+size].                      *)
(***************************************************************************)
ExpectedId == (IdA :> <<"NC_1.1_0", "NC_1.1_1", "NC_1.1_2", "NC_1.1_3",
                        "NC_1.1_4", "NC_1.1_5", "NC_1.1_6", "NC_1.1_7">>)
           @@ (IdB :> <<"NM_2.1_0", "NM_2.1_1", "NM_2.1_2", "NM_2.1_3",
                        "NM_2.1_4", "NM_2.1_5", "NM_2.1_6", "NM_2.1_7">>)

C4_ChunkNumbering ==
    \A id \in DOMAIN written :
        Original(id) # <<>> =>
            /\ written[id].ok
            /\ Len(written[id].value) = (Len(Original(id)) + Size - 1) \div Size
            /\ \A k \in 1..Len(written[id].value) :
                  LET chunk == written[id].value[k]
                  IN /\ chunk.chunk_number = k - 1
                     /\ chunk._id = ExpectedId[id][k]
                     /\ decompress(chunk.sequence).ok
                     /\ decode(decompress(chunk.sequence).value)
                          = Slice(Original(id), (k - 1) * Size, (k - 1) * Size + Size)

C4_Witness ==
    /\ IdA \in DOMAIN written
    /\ written[IdA].ok
    /\ Len(written[IdA].value) >= 2
    /\ Len(Original(IdA)) % Size # 0

(***************************************************************************)
(* C5  Inconsistent merge input is rejected: merging a collection in which *)
(* some chunk's accession_version differs from the others' fails.          *)
(***************************************************************************)
C5_InconsistentMergeRejected ==
    (phase = "merged" /\ Cardinality(Owners(fetched)) >= 2) => ~merged.ok

(***************************************************************************)
(* C7  Empty sequence: the split request of an empty sequence succeeds and *)
(* returns an empty list of chunks.                                        *)
(***************************************************************************)
C7_EmptySequenceSplits ==
    \A id \in DOMAIN written :
        Original(id) = <<>> => written[id] = Return(<<>>)

(***************************************************************************)
(* C10  In-range requests name only existing chunks: every id of the       *)
(* partition list is the id of a chunk of the split output whose slice     *)
(* overlaps [start, end).                                                  *)
(***************************************************************************)
C10_PartitionsExistAndOverlap ==
    (phase = "resolved" /\ InRange(request)) =>
        /\ resolved.ok
        /\ \A k \in 1..Len(resolved.value.partition_list) :
              \E chunk \in SeqToSet(written[request.accession_version].value) :
                  /\ chunk._id = resolved.value.partition_list[k]
                  /\ chunk.chunk_number * Size < request.end
                  /\ (chunk.chunk_number + 1) * Size > request.start

(***************************************************************************)
(* Properties of a session of calls (specification Session).               *)
(***************************************************************************)
ValidArguments(call) ==
    \/ /\ call.op = "modification"
       /\ call.mode = "split"
       /\ call.input.type = "str"
       /\ call.sequence # <<>>
    \/ /\ call.op = "modification"
       /\ call.mode = "merge"
       /\ call.input.type = "list"
       /\ call.input.value # <<>>
    \/ /\ call.op = "process_request"
       /\ 0 <= call.form.start
       /\ call.form.start < call.form.end

(***************************************************************************)
(* C6  Malformed ranges are rejected: process_request called with          *)
(* start >= end fails and returns no partition list and no offsets.        *)
(***************************************************************************)
C6_MalformedRangeRejected ==
    (last.op = "process_request" /\ last.configured
       /\ last.form.start >= last.form.end) => ~last.outcome.ok

C8_CallersIsolated ==
    \A c \in Callers :
        pc[c] = "done" => result[c] = process_request(set(job[c].target), job[c].form)

====
